---- MODULE Spec2Model ----
(***************************************************************************)
(* Playwright-Scraper-Library: BrowserManager (src/src/BrowserManager.js), *)
(* FileManager and PageHandler (src/src/FileManager.js).                   *)
(*                                                                         *)
(* The three classes share no state: BrowserManager owns its three fields  *)
(* and talks to the browser engine, FileManager only talks to the file     *)
(* system, PageHandler only talks to the page it was constructed with.     *)
(* A run therefore exercises the object the client constructed (obj); a    *)
(* run mixing calls on two objects is an interleaving of independent runs. *)
(*                                                                         *)
(* Every handler is an operator from the state before the call (and the    *)
(* call's inputs, among them which awaited engine call fails) to a result  *)
(* record: the state after, resolved/rejected, the value or error, the     *)
(* console output and the engine calls made.  The action of the handler    *)
(* installs the result and records the call in `last`.                     *)
(***************************************************************************)
EXTENDS Integers, Sequences, FiniteSets, TLC

VARIABLES obj,          \* the class the client instantiated
          browser,      \* BrowserManager.browser
          context,      \* BrowserManager.context
          page,         \* BrowserManager.page
          nBrowsers,    \* engine: browsers handed out so far (ids 1..nBrowsers)
          brOpen,       \* engine: the browsers still open
          ctxBrowser,   \* engine: ctxBrowser[c] is the browser of context c
          ctxOpen,      \* engine: the contexts still open
          pgCtx,        \* engine: pgCtx[p] is the context of page p
          fsKind,       \* file system: what each path is
          dom,          \* the elements of the page PageHandler holds
          tasks,        \* concurrent newContext calls in flight
          nDone,        \* concurrent calls completed since the last quiescence
          last          \* the call the latest step completed, and its outcome

vars == <<obj, browser, context, page, nBrowsers, brOpen, ctxBrowser, ctxOpen,
          pgCtx, fsKind, dom, tasks, nDone, last>>

\* ------------------------------------------------------------------ bounds
MaxObjects == 4
MaxRemoteContexts == 2
MaxPaths == 2
MaxDom == 2

\* ------------------------------------------------------------ JS values
Null == 0
Undefined == 0 - 1
Truthy(x) == x # Null /\ x # Undefined

Log(msg) == [level |-> "log", msg |-> msg]
Warn(msg) == [level |-> "warn", msg |-> msg]
Error(msg) == [level |-> "error", msg |-> msg]

\* A call that resolved with `value`, and one that rejected with `err`.
\* `failed` is the error of the first awaited call that failed ("none").
Resolved(s, value, failed, logs, calls) ==
  [s |-> s, outcome |-> "resolved", value |-> value, err |-> "none",
   failed |-> failed, logs |-> logs, calls |-> calls]
Rejected(s, err, logs, calls) ==
  [s |-> s, outcome |-> "rejected", value |-> Undefined, err |-> err,
   failed |-> err, logs |-> logs, calls |-> calls]

\* ------------------------------------------------- the browser engine
\* The state BrowserManager's handlers read and write.
BM ==
  [browser |-> browser, context |-> context, page |-> page,
   nBrowsers |-> nBrowsers, brOpen |-> brOpen, ctxBrowser |-> ctxBrowser,
   ctxOpen |-> ctxOpen, pgCtx |-> pgCtx]

RECURSIVE SortedSeq(_)
SortedSeq(S) ==
  IF S = {} THEN <<>>
  ELSE LET m == CHOOSE x \in S : \A y \in S : x <= y
       IN <<m>> \o SortedSeq(S \ {m})

\* browser.contexts(): the open contexts of browser b, oldest first.
contexts(s, b) ==
  SortedSeq({c \in s.ctxOpen : s.ctxBrowser[c] = b})

\* chromium.launch(): a new browser without contexts.
chromium_launch(s) ==
  LET b == s.nBrowsers + 1
  IN [s EXCEPT !.nBrowsers = b, !.brOpen = @ \cup {b}]

\* chromium.connectOverCDP(): a browser object for a running browser that
\* already has k contexts.
chromium_connectOverCDP(s, k) ==
  LET b == s.nBrowsers + 1
      base == Len(s.ctxBrowser)
  IN [s EXCEPT !.nBrowsers = b, !.brOpen = @ \cup {b},
               !.ctxBrowser = @ \o [i \in 1..k |-> b],
               !.ctxOpen = @ \cup (base + 1 .. base + k)]

\* browser.newContext() on browser b: "ok" and the state with the new
\* context, or the error it throws.
browser_newContext(s, b, fail) ==
  IF ~Truthy(b) THEN [err |-> "TypeError", s |-> s, id |-> Undefined]
  ELSE IF b \notin s.brOpen THEN [err |-> "TargetClosedError", s |-> s, id |-> Undefined]
  ELSE IF fail THEN [err |-> "EngineError", s |-> s, id |-> Undefined]
  ELSE [err |-> "none",
        s |-> [s EXCEPT !.ctxBrowser = Append(@, b),
                        !.ctxOpen = @ \cup {Len(s.ctxBrowser) + 1}],
        id |-> Len(s.ctxBrowser) + 1]

\* context.newPage() on context c.
context_newPage(s, c, fail) ==
  IF ~Truthy(c) THEN [err |-> "TypeError", s |-> s, id |-> Undefined]
  ELSE IF c \notin s.ctxOpen THEN [err |-> "TargetClosedError", s |-> s, id |-> Undefined]
  ELSE IF fail THEN [err |-> "EngineError", s |-> s, id |-> Undefined]
  ELSE [err |-> "none",
        s |-> [s EXCEPT !.pgCtx = Append(@, c)],
        id |-> Len(s.pgCtx) + 1]

\* context.close() on context c.
context_close(s, c, fail) ==
  IF fail THEN [err |-> "EngineError", s |-> s]
  ELSE [err |-> "none", s |-> [s EXCEPT !.ctxOpen = @ \ {c}]]

\* browser.close() on browser b: its contexts close with it.
browser_close(s, b, fail) ==
  IF fail THEN [err |-> "EngineError", s |-> s]
  ELSE [err |-> "none",
        s |-> [s EXCEPT !.brOpen = @ \ {b},
                        !.ctxOpen = {c \in @ : s.ctxBrowser[c] # b}]]

\* A launchBrowser that returns the new page without storing it.
launchBrowserNoStore(s, f) ==
  LET s1 == [chromium_launch(s) EXCEPT !.browser = s.nBrowsers + 1]
      c == browser_newContext(s1, s1.browser, f = 2)
      s2 == [c.s EXCEPT !.context = c.id]
      p == context_newPage(s2, s2.context, f = 3)
  IN IF f = 1 THEN Rejected(s, "EngineError", <<>>, <<>>)
     ELSE IF c.err # "none" THEN Rejected(s1, c.err, <<>>, <<>>)
     ELSE IF p.err # "none" THEN Rejected(s2, p.err, <<>>, <<>>)
     ELSE Resolved(p.s, p.id, "none", <<Log("Browser Launched")>>, <<>>)

\* ------------------------------------------------------ BrowserManager
\* f: the awaited call that fails (0: none; 1: launch, 2: newContext,
\* 3: newPage).
launchBrowser(s, f) ==
  LET s1 == [chromium_launch(s) EXCEPT !.browser = s.nBrowsers + 1]
      c == browser_newContext(s1, s1.browser, f = 2)
      s2 == [c.s EXCEPT !.context = c.id]
      p == context_newPage(s2, s2.context, f = 3)
      s3 == [p.s EXCEPT !.page = p.id]
      onError == <<Error("Error launching browser: ")>>
  IN IF f = 1 THEN Rejected(s, "EngineError", onError, <<"chromium.launch">>)
     ELSE IF c.err # "none"
       THEN Rejected(s1, c.err, onError, <<"chromium.launch", "browser.newContext">>)
     ELSE IF p.err # "none"
       THEN Rejected(s2, p.err, onError,
                     <<"chromium.launch", "browser.newContext", "context.newPage">>)
     ELSE Resolved(s3, s3.page, "none", <<Log("Browser Launched")>>,
                   <<"chromium.launch", "browser.newContext", "context.newPage">>)

\* A connectOverCDP that creates a context when the browser has none at
\* contextIndex.
connectOverCDPFallback(s, contextIndex, k, f) ==
  LET s1 == [chromium_connectOverCDP(s, k) EXCEPT !.browser = s.nBrowsers + 1]
      found == contexts(s1, s1.browser)
      c == browser_newContext(s1, s1.browser, FALSE)
      s2 == IF contextIndex \in 0 .. Len(found) - 1
            THEN [s1 EXCEPT !.context = found[contextIndex + 1]]
            ELSE [c.s EXCEPT !.context = c.id]
      p == context_newPage(s2, s2.context, f = 2)
      s3 == [p.s EXCEPT !.page = p.id]
  IN IF f = 1 THEN Rejected(s, "EngineError", <<>>, <<"chromium.connectOverCDP">>)
     ELSE IF p.err # "none"
       THEN Rejected(s2, p.err, <<>>, <<"chromium.connectOverCDP">>)
     ELSE Resolved(s3, s3.page, "none", <<Log("Connected to endpoint")>>,
                   <<"chromium.connectOverCDP", "browser.contexts", "context.newPage">>)

\* k: the contexts the remote browser has; f: 1: connectOverCDP fails,
\* 2: newPage fails.
connectOverCDP(s, contextIndex, k, f) ==
  LET s1 == [chromium_connectOverCDP(s, k) EXCEPT !.browser = s.nBrowsers + 1]
      found == contexts(s1, s1.browser)
      s2 == [s1 EXCEPT !.context =
               IF contextIndex \in 0 .. Len(found) - 1
               THEN found[contextIndex + 1] ELSE Undefined]
      p == context_newPage(s2, s2.context, f = 2)
      s3 == [p.s EXCEPT !.page = p.id]
      onError == <<Error("Error connecting to endpoint")>>
  IN IF f = 1 THEN Rejected(s, "EngineError", onError, <<"chromium.connectOverCDP">>)
     ELSE IF p.err # "none"
       THEN Rejected(s2, p.err, onError,
                     <<"chromium.connectOverCDP", "browser.contexts">>
                     \o (IF Truthy(s2.context) THEN <<"context.newPage">> ELSE <<>>))
     ELSE Resolved(s3, s3.page, "none", <<Log("Connected to endpoint")>>,
                   <<"chromium.connectOverCDP", "browser.contexts", "context.newPage">>)

\* A newContext that does not look at the context it holds.
newContextBeginNoCheck(s) ==
  IF ~Truthy(s.browser)
  THEN [pc |-> "done", b |-> Null,
        r |-> Rejected(s, "TypeError", <<Error("Error creating context: ")>>, <<>>)]
  ELSE [pc |-> "await", b |-> s.browser, r |-> <<>>]

\* newContext up to its await: it is over when a context is held (the
\* warning) or when there is no browser to ask (the TypeError is caught and
\* re-thrown); otherwise it waits for browser b's newContext().
newContextBegin(s) ==
  IF ~Truthy(s.context)
  THEN IF ~Truthy(s.browser)
       THEN [pc |-> "done", b |-> Null,
             r |-> Rejected(s, "TypeError", <<Error("Error creating context: ")>>, <<>>)]
       ELSE [pc |-> "await", b |-> s.browser, r |-> <<>>]
  ELSE [pc |-> "done", b |-> Null,
        r |-> Resolved(s, s.context, "none",
                       <<Warn("Current Context needs to close before creating a new one")>>,
                       <<>>)]

\* A newContext that looks again after its await and keeps the context
\* another call stored meanwhile.
newContextResumeRecheck(s, b, fail) ==
  LET c == browser_newContext(s, b, fail)
      s1 == [c.s EXCEPT !.context = c.id]
  IN IF Truthy(s.context)
     THEN Resolved(s, s.context, "none", <<>>, <<>>)
     ELSE IF c.err # "none"
       THEN Rejected(s, c.err, <<Error("Error creating context: ")>>,
                     <<"browser.newContext">>)
       ELSE Resolved(s1, s1.context, "none", <<Log("New Context Created")>>,
                     <<"browser.newContext">>)

\* newContext from its await on: the engine's answer is stored and returned.
newContextResume(s, b, fail) ==
  LET c == browser_newContext(s, b, fail)
      s1 == [c.s EXCEPT !.context = c.id]
  IN IF c.err # "none"
     THEN Rejected(s, c.err, <<Error("Error creating context: ")>>,
                   <<"browser.newContext">>)
     ELSE Resolved(s1, s1.context, "none", <<Log("New Context Created")>>,
                   <<"browser.newContext">>)

\* newContext awaited by its caller before anything else runs.
newContext(s, f) ==
  LET st == newContextBegin(s)
  IN IF st.pc = "done" THEN st.r ELSE newContextResume(s, st.b, f = 1)

\* A newPage that stores the page whatever isolatePage says.
newPageNoIsolate(s, isolatePage, f) ==
  LET p == context_newPage(s, s.context, f = 1)
      s1 == [p.s EXCEPT !.page = p.id]
  IN IF p.err # "none"
     THEN Rejected(s, p.err, <<Error("Error creating new page: ")>>, <<>>)
     ELSE Resolved(s1, s1.page, "none", <<Log("New Page Created")>>,
                   <<"context.newPage">>)

newPage(s, isolatePage, f) ==
  LET p == context_newPage(s, s.context, f = 1)
      s1 == [p.s EXCEPT !.page = p.id]
      made == IF Truthy(s.context) THEN <<"context.newPage">> ELSE <<>>
  IN IF p.err # "none"
     THEN Rejected(s, p.err,
                   (IF isolatePage THEN <<Log("Creating new isolated page")>> ELSE <<>>)
                   \o <<Error("Error creating new page: ")>>, made)
     ELSE IF isolatePage
       THEN Resolved(p.s, p.id, "none", <<Log("Creating new isolated page")>>, made)
       ELSE Resolved(s1, s1.page, "none", <<Log("New Page Created")>>, made)

closeContext(s, f) ==
  LET c == context_close(s, s.context, f = 1)
  IN IF Truthy(s.context)
     THEN IF c.err # "none"
          THEN Resolved(s, Undefined, c.err, <<Error("Error closing context: ")>>,
                        <<"context.close">>)
          ELSE Resolved(c.s, Undefined, "none", <<Log("Closed Context")>>,
                        <<"context.close">>)
     ELSE Resolved(s, Undefined, "none", <<>>, <<>>)

\* f1: context.close() fails; f2: browser.close() fails.
closeBrowser(s, f1, f2) ==
  LET cc == closeContext(s, IF f1 THEN 1 ELSE 0)
      b == browser_close(cc.s, s.browser, f2)
  IN IF Truthy(s.browser)
     THEN IF b.err # "none"
          THEN Resolved(cc.s, Undefined, IF cc.failed # "none" THEN cc.failed ELSE b.err,
                        cc.logs \o <<Error("Error closing browser: ")>>,
                        cc.calls \o <<"browser.close">>)
          ELSE Resolved(b.s, Undefined, cc.failed,
                        cc.logs \o <<Log("Closed Browser")>>,
                        cc.calls \o <<"browser.close">>)
     ELSE Resolved(s, Undefined, "none", <<>>, <<>>)

\* ------------------------------------------------------------- actions
\* The engine hands out at most MaxObjects browsers, contexts and pages.
Fits(s) == s.nBrowsers + Len(s.ctxBrowser) + Len(s.pgCtx) <= MaxObjects

Idle == \A t \in DOMAIN tasks : tasks[t].pc = "idle"

\* The record of a completed call: the operation, its arguments, what the
\* claims need of the state before it, and its outcome.
Called(op, args, pre, r) ==
  [op |-> op, args |-> args, pre |-> pre, outcome |-> r.outcome,
   value |-> r.value, err |-> r.err, failed |-> r.failed,
   logs |-> r.logs, calls |-> r.calls]

NoCall ==
  [op |-> "none", args |-> <<>>, pre |-> <<>>, outcome |-> "none", value |-> Undefined,
   err |-> "none", failed |-> "none", logs |-> <<>>, calls |-> <<>>]

PreBM ==
  [browser |-> browser, context |-> context, page |-> page,
   contextOpen |-> context \in ctxOpen,
   nBrowsers |-> nBrowsers, nContexts |-> Len(ctxBrowser), nPages |-> Len(pgCtx)]

\* Install a BrowserManager result and record the call.
ApplyBM(op, args, r) ==
  /\ Fits(r.s)
  /\ browser' = r.s.browser
  /\ context' = r.s.context
  /\ page' = r.s.page
  /\ nBrowsers' = r.s.nBrowsers
  /\ brOpen' = r.s.brOpen
  /\ ctxBrowser' = r.s.ctxBrowser
  /\ ctxOpen' = r.s.ctxOpen
  /\ pgCtx' = r.s.pgCtx
  /\ last' = Called(op, args, PreBM, r)
  /\ UNCHANGED <<obj, fsKind, dom, tasks, nDone>>

LaunchBrowser ==
  /\ obj = "BrowserManager" /\ Idle
  /\ \E f \in 0..3 :
       ApplyBM("launchBrowser", <<>>, launchBrowser(BM, f))

ConnectOverCDP ==
  /\ obj = "BrowserManager" /\ Idle
  /\ \E contextIndex \in (0 - 1) .. MaxRemoteContexts, k \in 0 .. MaxRemoteContexts,
        f \in 0..2 :
       ApplyBM("connectOverCDP", [contextIndex |-> contextIndex, k |-> k],
               connectOverCDP(BM, contextIndex, k, f))

NewContext ==
  /\ obj = "BrowserManager" /\ Idle
  /\ \E f \in 0..1 : ApplyBM("newContext", <<>>, newContext(BM, f))

NewPage ==
  /\ obj = "BrowserManager" /\ Idle
  /\ \E isolatePage \in BOOLEAN, f \in 0..1 :
       ApplyBM("newPage", [isolatePage |-> isolatePage],
               newPage(BM, isolatePage, f))

CloseContext ==
  /\ obj = "BrowserManager" /\ Idle
  /\ \E f \in 0..1 : ApplyBM("closeContext", <<>>, closeContext(BM, f))

CloseBrowser ==
  /\ obj = "BrowserManager" /\ Idle
  /\ \E f1 \in BOOLEAN, f2 \in BOOLEAN :
       ApplyBM("closeBrowser", <<>>, closeBrowser(BM, f1, f2))

NextBM ==
  \/ LaunchBrowser
  \/ ConnectOverCDP
  \/ NewContext
  \/ NewPage
  \/ CloseContext
  \/ CloseBrowser

\* ------------------------------------------------------ the file system
\* What require('fs').promises exports (src/src/FileManager.js line 1 binds
\* `fs` to it): the promise API has no existsSync.
fsPromises ==
  {"access", "appendFile", "chmod", "chown", "copyFile", "cp", "lstat", "mkdir",
   "mkdtemp", "open", "opendir", "readdir", "readFile", "readlink", "realpath",
   "rename", "rm", "rmdir", "stat", "symlink", "truncate", "unlink", "utimes",
   "watch", "writeFile"}

\* The state FileManager's handlers read and write.
FM == [fsKind |-> fsKind]

Exists(s, path) == s.fsKind[path] # "none"

\* fs.mkdir(path, { recursive })
fs_mkdir(s, path, recursive, fail) ==
  IF fail THEN [err |-> "EACCES", s |-> s]
  ELSE IF s.fsKind[path] = "dir" /\ recursive THEN [err |-> "none", s |-> s]
  ELSE IF Exists(s, path) THEN [err |-> "EEXIST", s |-> s]
  ELSE [err |-> "none", s |-> [s EXCEPT !.fsKind[path] = "dir"]]

\* fs.readFile(path, options)
fs_readFile(s, path, fail) ==
  IF fail THEN [err |-> "EACCES", s |-> s]
  ELSE IF ~Exists(s, path) THEN [err |-> "ENOENT", s |-> s]
  ELSE IF s.fsKind[path] = "dir" THEN [err |-> "EISDIR", s |-> s]
  ELSE [err |-> "none", s |-> s]

\* fs.writeFile(path, data) and fs.appendFile(path, data): data must be a
\* string (or a buffer); the file is created when it does not exist.
fs_writeFile(s, path, dataKind, fail) ==
  IF dataKind # "string" THEN [err |-> "TypeError", s |-> s]
  ELSE IF fail THEN [err |-> "EACCES", s |-> s]
  ELSE IF s.fsKind[path] = "dir" THEN [err |-> "EISDIR", s |-> s]
  ELSE [err |-> "none", s |-> [s EXCEPT !.fsKind[path] = "file"]]

\* fs.rm(path, { recursive }) (force is not set)
fs_rm(s, path, recursive, fail) ==
  IF fail THEN [err |-> "EACCES", s |-> s]
  ELSE IF ~Exists(s, path) THEN [err |-> "ENOENT", s |-> s]
  ELSE IF s.fsKind[path] = "dir" /\ ~recursive THEN [err |-> "ERR_FS_EISDIR", s |-> s]
  ELSE [err |-> "none", s |-> [s EXCEPT !.fsKind[path] = "none"]]

\* JSON.stringify(data, null, 2)
JSON_stringify(dataKind) ==
  IF dataKind = "circular" THEN [err |-> "TypeError", kind |-> dataKind]
  ELSE [err |-> "none", kind |-> "string"]

\* JavaScript's ToBoolean on the values an `if` meets here: a boolean is
\* itself, an object (a Promise among them, settled or not) is true.
JsBoolean(b) == [type |-> "boolean", val |-> b]
JsPromise(r) == [type |-> "object", settled |-> r]
ToBoolean(v) == IF v.type = "boolean" THEN v.val ELSE TRUE

\* --------------------------------------------------------- FileManager
createDirectory(s, dirPath, recursive, fail) ==
  LET m == fs_mkdir(s, dirPath, recursive, fail)
  IN IF m.err # "none"
     THEN Rejected(s, m.err, <<Error("Error creating directory")>>, <<"fs.mkdir">>)
     ELSE Resolved(m.s, Undefined, "none",
                   <<Log("directory already exist or it was created")>>, <<"fs.mkdir">>)

\* A readFile that answers null when the read fails.
readFileSwallow(s, filePath, fail) ==
  LET m == fs_readFile(s, filePath, fail)
  IN IF m.err = "none"
     THEN Resolved(s, "data", "none", <<Log("Read file at path")>>, <<"fs.readFile">>)
     ELSE Resolved(s, "null", m.err, <<Error("Error reading file:")>>, <<"fs.readFile">>)

readFile(s, filePath, fail) ==
  LET m == fs_readFile(s, filePath, fail)
  IN IF m.err = "none"
     THEN Resolved(s, "data", "none", <<Log("Read file at path")>>, <<"fs.readFile">>)
     ELSE IF m.err = "ENOENT"
       THEN Rejected(s, m.err, <<Error("File not found:")>>, <<"fs.readFile">>)
       ELSE Rejected(s, m.err, <<Error("Error reading file:")>>, <<"fs.readFile">>)

writeFile(s, filePath, fail) ==
  LET m == fs_writeFile(s, filePath, "string", fail)
  IN IF m.err # "none"
     THEN Rejected(s, m.err, <<Error("Error writing file")>>, <<"fs.writeFile">>)
     ELSE Resolved(m.s, Undefined, "none", <<Log("Wrote data to file")>>,
                   <<"fs.writeFile">>)

appendToFile(s, filePath, fail) ==
  LET m == fs_writeFile(s, filePath, "string", fail)
  IN IF m.err # "none"
     THEN Rejected(s, m.err, <<Error("Error appending to file")>>, <<"fs.appendFile">>)
     ELSE Resolved(m.s, Undefined, "none", <<Log("Appended data to file")>>,
                   <<"fs.appendFile">>)

saveJson(s, filePath, dataKind, prettyPrint, fail) ==
  LET j == JSON_stringify(dataKind)
      data == IF prettyPrint THEN j.kind ELSE dataKind
      m == fs_writeFile(s, filePath, data, fail)
      onError == <<Error("Error saving JSON file")>>
  IN IF prettyPrint /\ j.err # "none" THEN Rejected(s, j.err, onError, <<>>)
     ELSE IF m.err # "none" THEN Rejected(s, m.err, onError, <<"fs.writeFile">>)
     ELSE Resolved(m.s, Undefined, "none", <<Log("JSON file saved")>>,
                   <<"fs.writeFile">>)

\* `await fs.existsSync(path)` inside try/catch.
pathExist(s, path) ==
  IF "existsSync" \in fsPromises
  THEN Resolved(s, Exists(s, path), "none", <<>>, <<"fs.existsSync">>)
  ELSE Rejected(s, "TypeError", <<Error("Error verifying existance of path")>>, <<>>)

\* `if (this.pathExist(path))` tests the promise pathExist returns, not the
\* value it settles to; pathExist runs up to its first await (here: to its
\* end) when it is called, so its console output comes first.
deletePath(s, path, recursive, fail) ==
  LET pe == pathExist(s, path)
      m == fs_rm(s, path, recursive, fail)
  IN IF ToBoolean(JsPromise(pe))
     THEN IF m.err # "none"
          THEN Rejected(s, m.err, pe.logs \o <<Error("Error deleting")>>,
                        pe.calls \o <<"fs.rm">>)
          ELSE Resolved(m.s, Undefined, "none", pe.logs \o <<Log("Deleted path")>>,
                        pe.calls \o <<"fs.rm">>)
     ELSE Resolved(s, Undefined, "none",
                   pe.logs \o <<Warn("Non-existing path can't be removed")>>, pe.calls)

deleteDirectory(s, dirPath, fail) == deletePath(s, dirPath, TRUE, fail)

deleteFile(s, filePath, fail) == deletePath(s, filePath, FALSE, fail)

directoryExists(s, dirPath) == pathExist(s, dirPath)

fileExists(s, filePath) == pathExist(s, filePath)

\* Install a FileManager result and record the call.
ApplyFM(op, args, r) ==
  /\ fsKind' = r.s.fsKind
  /\ last' = Called(op, args, FM, r)
  /\ UNCHANGED <<obj, browser, context, page, nBrowsers, brOpen, ctxBrowser,
                 ctxOpen, pgCtx, dom, tasks, nDone>>

Paths == 1 .. MaxPaths

CreateDirectory ==
  /\ obj = "FileManager"
  /\ \E path \in Paths, recursive \in BOOLEAN, fail \in BOOLEAN :
       ApplyFM("createDirectory", [path |-> path, recursive |-> recursive],
               createDirectory(FM, path, recursive, fail))

ReadFile ==
  /\ obj = "FileManager"
  /\ \E path \in Paths, fail \in BOOLEAN :
       ApplyFM("readFile", [path |-> path], readFile(FM, path, fail))

WriteFile ==
  /\ obj = "FileManager"
  /\ \E path \in Paths, fail \in BOOLEAN :
       ApplyFM("writeFile", [path |-> path], writeFile(FM, path, fail))

AppendToFile ==
  /\ obj = "FileManager"
  /\ \E path \in Paths, fail \in BOOLEAN :
       ApplyFM("appendToFile", [path |-> path], appendToFile(FM, path, fail))

SaveJson ==
  /\ obj = "FileManager"
  /\ \E path \in Paths, dataKind \in {"string", "array", "circular"},
        prettyPrint \in BOOLEAN, fail \in BOOLEAN :
       ApplyFM("saveJson",
               [path |-> path, dataKind |-> dataKind, prettyPrint |-> prettyPrint],
               saveJson(FM, path, dataKind, prettyPrint, fail))

DeletePath ==
  /\ obj = "FileManager"
  /\ \E path \in Paths, recursive \in BOOLEAN, fail \in BOOLEAN :
       ApplyFM("deletePath", [path |-> path, recursive |-> recursive],
               deletePath(FM, path, recursive, fail))

DeleteDirectory ==
  /\ obj = "FileManager"
  /\ \E path \in Paths, fail \in BOOLEAN :
       ApplyFM("deleteDirectory", [path |-> path], deleteDirectory(FM, path, fail))

DeleteFile ==
  /\ obj = "FileManager"
  /\ \E path \in Paths, fail \in BOOLEAN :
       ApplyFM("deleteFile", [path |-> path], deleteFile(FM, path, fail))

PathExist ==
  /\ obj = "FileManager"
  /\ \E path \in Paths : ApplyFM("pathExist", [path |-> path], pathExist(FM, path))

DirectoryExists ==
  /\ obj = "FileManager"
  /\ \E path \in Paths :
       ApplyFM("directoryExists", [path |-> path], directoryExists(FM, path))

FileExists ==
  /\ obj = "FileManager"
  /\ \E path \in Paths : ApplyFM("fileExists", [path |-> path], fileExists(FM, path))

NextFM ==
  \/ CreateDirectory
  \/ ReadFile
  \/ WriteFile
  \/ AppendToFile
  \/ SaveJson
  \/ DeletePath
  \/ DeleteDirectory
  \/ DeleteFile
  \/ PathExist
  \/ DirectoryExists
  \/ FileExists

\* ------------------------------------------------------ the page engine
\* An element of the page: the selector it answers to and its text; the
\* input elements can be filled.
Selectors == {"button", "input"}
Texts == {<<"R", "1">>, <<"R", "2">>}
Queries == Texts \cup {<<"R">>}
Elements == [sel : Selectors, text : Texts]
Fillable(e) == e.sel = "input"

\* The state PageHandler's handlers read and write.
PH == [dom |-> dom]

\* hasText: the element's text contains the query.
Contains(text, q) ==
  \E i \in 1 .. Len(text) - Len(q) + 1 : SubSeq(text, i, i + Len(q) - 1) = q

\* page.locator(selector, { hasText }): nothing is looked up yet.
page_locator(selector, hasText) == [selector |-> selector, hasText |-> hasText]

\* The elements a locator resolves to, in document order, at the time of
\* the action.
Matches(s, loc) ==
  SortedSeq({i \in 1 .. Len(s.dom) :
               /\ s.dom[i].sel = loc.selector
               /\ (loc.hasText = <<>> \/ Contains(s.dom[i].text, loc.hasText))})

\* An action on a locator (click, fill, textContent, getAttribute) is
\* strict: it needs exactly one element, times out waiting for one when
\* there is none and refuses to choose when there are several.
locator_resolve(s, loc, fail) ==
  LET m == Matches(s, loc)
  IN IF fail THEN [err |-> "EngineError", target |-> 0]
     ELSE IF Len(m) = 0 THEN [err |-> "TimeoutError", target |-> 0]
     ELSE IF Len(m) > 1 THEN [err |-> "StrictModeViolation", target |-> 0]
     ELSE [err |-> "none", target |-> m[1]]

\* locator.fill(text): the element must be fillable.
locator_fill(s, loc, fail) ==
  LET r == locator_resolve(s, loc, fail)
  IN IF r.err = "none" /\ ~Fillable(s.dom[r.target])
     THEN [err |-> "NotAnInputError", target |-> 0]
     ELSE r

\* A result with the element the call acted on (0: none).
On(target, r) == [target |-> target] @@ r

\* The locator of a selectorOrLocator argument that is not null.
AsLocator(selectorOrLocator) == page_locator(selectorOrLocator.selector, <<>>)

\* ----------------------------------------------------------- PageHandler
waitForRandomTimeout(s, fail) ==
  IF fail THEN On(0, Rejected(s, "EngineError", <<>>, <<"page.waitForTimeout">>))
  ELSE On(0, Resolved(s, Undefined, "none", <<>>, <<"page.waitForTimeout">>))

\* A navigation followed by the wait; f: 1: the navigation fails, 2: the
\* wait fails.  The document is replaced by the one the navigation loads.
\* The log line comes first (before) or after both calls.
Navigate(s, call, line, before, onError, f) ==
  LET s1 == [s EXCEPT !.dom = <<>>]
      w == waitForRandomTimeout(s1, f = 2)
      first == IF before THEN <<Log(line)>> ELSE <<>>
  IN IF f = 1 THEN On(0, Rejected(s, "EngineError", first \o <<Error(onError)>>, <<call>>))
     ELSE IF w.err # "none"
       THEN On(0, Rejected(s1, w.err, first \o <<Error(onError)>>, <<call>> \o w.calls))
     ELSE On(0, Resolved(s1, Undefined, "none",
                         IF before THEN first ELSE <<Log(line)>>, <<call>> \o w.calls))

goToUrl(s, f) == Navigate(s, "page.goto", "Goto:", TRUE, "Error going to url:", f)

goBack(s, f) == Navigate(s, "page.goBack", "Go Back", TRUE, "Error going back:", f)

goForward(s, f) ==
  Navigate(s, "page.goForward", "Go Forward", FALSE, "Error going forward:", f)

reloadPage(s, f) ==
  Navigate(s, "page.reload", "Reloaded Page", FALSE, "Error reloading page:", f)

getElements(s, selector, fail) ==
  IF fail \/ selector = "null"
  THEN On(0, Rejected(s, "EngineError", <<Error("Error getting elements with selector")>>,
                      <<"locator.all">>))
  ELSE On(0, Resolved(s, Matches(s, page_locator(selector, <<>>)), "none", <<>>,
                      <<"locator.all">>))

getElementText(s, selectorOrLocator, fail) ==
  LET r == locator_resolve(s, AsLocator(selectorOrLocator), fail)
      onError == <<Error("Error getting element text with selector")>>
  IN IF selectorOrLocator.type = "null"
     THEN On(0, Resolved(s, Null, "TypeError", onError, <<>>))
     ELSE IF r.err # "none"
       THEN On(0, Resolved(s, Null, r.err, onError, <<"locator.textContent">>))
       ELSE On(r.target, Resolved(s, s.dom[r.target].text, "none", <<>>,
                                  <<"locator.textContent">>))

getElementAttribute(s, selectorOrLocator, fail) ==
  LET r == locator_resolve(s, AsLocator(selectorOrLocator), fail)
      onError == <<Error("Error getting element attribute:")>>
  IN IF selectorOrLocator.type # "locator"
     THEN On(0, Rejected(s, "TypeError", onError, <<>>))
     ELSE IF r.err # "none"
       THEN On(0, Rejected(s, r.err, onError, <<"locator.getAttribute">>))
       ELSE On(r.target, Resolved(s, "attribute", "none", <<>>,
                                  <<"locator.getAttribute">>))

\* f: 1: the click fails, 2: the wait fails.
clickAndWait(s, selectorOrLocator, f) ==
  LET r == locator_resolve(s, AsLocator(selectorOrLocator), f = 1)
      w == waitForRandomTimeout(s, f = 2)
      onError == <<Error("Error clicking element:")>>
  IN IF selectorOrLocator.type = "null"
     THEN On(0, Rejected(s, "TypeError", onError, <<>>))
     ELSE IF r.err # "none"
       THEN On(0, Rejected(s, r.err, onError, <<"locator.click">>))
     ELSE IF w.err # "none"
       THEN On(r.target, Rejected(s, w.err, onError, <<"locator.click">> \o w.calls))
     ELSE On(r.target, Resolved(s, Undefined, "none", <<Log("Clicked element")>>,
                                <<"locator.click">> \o w.calls))

\* What typeText's catch block does with error e.
typeTextCatch(s, target, e, throwOnError, calls) ==
  IF throwOnError
  THEN On(target, Rejected(s, e, <<Error("Error filling element:")>>, calls))
  ELSE On(target, Resolved(s, FALSE, e,
                           <<Warn("Warning: Could not fill element (likely not an input element):")>>,
                           calls))

\* f: 1: the fill fails, 2: the wait fails.
typeText(s, selectorOrLocator, throwOnError, f) ==
  LET r == locator_fill(s, AsLocator(selectorOrLocator), f = 1)
      w == waitForRandomTimeout(s, f = 2)
  IN IF selectorOrLocator.type = "null"
     THEN typeTextCatch(s, 0, "TypeError", throwOnError, <<>>)
     ELSE IF r.err # "none"
       THEN typeTextCatch(s, 0, r.err, throwOnError, <<"locator.fill">>)
     ELSE IF w.err # "none"
       THEN typeTextCatch(s, r.target, w.err, throwOnError, <<"locator.fill">> \o w.calls)
     ELSE On(r.target, Resolved(s, TRUE, "none", <<Log("Filled input element with:")>>,
                                <<"locator.fill">> \o w.calls))

\* f: 1: the click fails, 2: the wait fails.
clickElemenWithText(s, selector, elementText, f) ==
  LET r == locator_resolve(s, page_locator(selector, elementText), f = 1)
      w == waitForRandomTimeout(s, f = 2)
      onError == <<Error("Error clicking element with text:")>>
  IN IF r.err # "none"
     THEN On(0, Rejected(s, r.err, onError, <<"locator.click">>))
     ELSE IF w.err # "none"
       THEN On(r.target, Rejected(s, w.err, onError, <<"locator.click">> \o w.calls))
     ELSE On(r.target, Resolved(s, Undefined, "none",
                                <<Log("Clicked element with text:")>>,
                                <<"locator.click">> \o w.calls))

\* Install a PageHandler result and record the call.
ApplyPH(op, args, r) ==
  /\ dom' = r.s.dom
  /\ last' = [target |-> r.target] @@ Called(op, args, <<>>, r)
  /\ UNCHANGED <<obj, browser, context, page, nBrowsers, brOpen, ctxBrowser,
                 ctxOpen, pgCtx, fsKind, tasks, nDone>>

\* The selectorOrLocator arguments: a selector string, a Locator made with
\* page.locator(selector), or null/undefined.
SelectorOrLocators ==
  [type : {"string", "locator"}, selector : Selectors]
    \cup {[type |-> "null", selector |-> "null"]}

\* The page changes under the handler: an element appears or goes away.
DomChange ==
  /\ obj = "PageHandler"
  /\ \/ \E e \in Elements : Len(dom) < MaxDom /\ dom' = Append(dom, e)
     \/ dom # <<>> /\ dom' = Tail(dom)
  /\ last' = NoCall
  /\ UNCHANGED <<obj, browser, context, page, nBrowsers, brOpen, ctxBrowser,
                 ctxOpen, pgCtx, fsKind, tasks, nDone>>

GoToUrl ==
  /\ obj = "PageHandler"
  /\ \E f \in 0..2 : ApplyPH("goToUrl", <<>>, goToUrl(PH, f))

GoBack ==
  /\ obj = "PageHandler"
  /\ \E f \in 0..2 : ApplyPH("goBack", <<>>, goBack(PH, f))

GoForward ==
  /\ obj = "PageHandler"
  /\ \E f \in 0..2 : ApplyPH("goForward", <<>>, goForward(PH, f))

ReloadPage ==
  /\ obj = "PageHandler"
  /\ \E f \in 0..2 : ApplyPH("reloadPage", <<>>, reloadPage(PH, f))

WaitForRandomTimeout ==
  /\ obj = "PageHandler"
  /\ \E fail \in BOOLEAN :
       ApplyPH("waitForRandomTimeout", <<>>, waitForRandomTimeout(PH, fail))

GetElements ==
  /\ obj = "PageHandler"
  /\ \E selector \in Selectors \cup {"null"}, fail \in BOOLEAN :
       ApplyPH("getElements", [selector |-> selector], getElements(PH, selector, fail))

GetElementText ==
  /\ obj = "PageHandler"
  /\ \E a \in SelectorOrLocators, fail \in BOOLEAN :
       ApplyPH("getElementText", [selectorOrLocator |-> a], getElementText(PH, a, fail))

GetElementAttribute ==
  /\ obj = "PageHandler"
  /\ \E a \in SelectorOrLocators, fail \in BOOLEAN :
       ApplyPH("getElementAttribute", [selectorOrLocator |-> a],
               getElementAttribute(PH, a, fail))

ClickAndWait ==
  /\ obj = "PageHandler"
  /\ \E a \in SelectorOrLocators, f \in 0..2 :
       ApplyPH("clickAndWait", [selectorOrLocator |-> a], clickAndWait(PH, a, f))

TypeText ==
  /\ obj = "PageHandler"
  /\ \E a \in SelectorOrLocators, throwOnError \in BOOLEAN, f \in 0..2 :
       ApplyPH("typeText", [selectorOrLocator |-> a, throwOnError |-> throwOnError],
               typeText(PH, a, throwOnError, f))

ClickElemenWithText ==
  /\ obj = "PageHandler"
  /\ \E selector \in Selectors \cup {"null"}, elementText \in Queries, f \in 0..2 :
       ApplyPH("clickElemenWithText",
               [selector |-> selector, elementText |-> elementText],
               clickElemenWithText(PH, selector, elementText, f))

NextPH ==
  \/ DomChange
  \/ GoToUrl
  \/ GoBack
  \/ GoForward
  \/ ReloadPage
  \/ WaitForRandomTimeout
  \/ GetElements
  \/ GetElementText
  \/ GetElementAttribute
  \/ ClickAndWait
  \/ TypeText
  \/ ClickElemenWithText

\* ------------------------------------------- concurrent newContext calls
\* Two callers that do not await each other: each call runs to its await in
\* one step and from the engine's answer to its end in another.
IdleTask ==
  [pc |-> "idle", b |-> Null, outcome |-> "none", value |-> Undefined,
   order |-> 0, overlap |-> FALSE]

Other(t) == 3 - t

NewContextBegin(t) ==
  /\ obj = "BrowserManager"
  /\ tasks[t].pc = "idle"
  /\ LET st == newContextBegin(BM)
         both == st.pc = "await" /\ tasks[Other(t)].pc = "await"
     IN /\ tasks' = [tasks EXCEPT
                       ![t] = [pc |-> st.pc, b |-> st.b,
                               outcome |-> IF st.pc = "done" THEN st.r.outcome ELSE "none",
                               value |-> IF st.pc = "done" THEN st.r.value ELSE Undefined,
                               order |-> IF st.pc = "done" THEN nDone + 1 ELSE 0,
                               overlap |-> both],
                       ![Other(t)].overlap = @ \/ both]
        /\ nDone' = IF st.pc = "done" THEN nDone + 1 ELSE nDone
  /\ last' = NoCall
  /\ UNCHANGED <<obj, browser, context, page, nBrowsers, brOpen, ctxBrowser,
                 ctxOpen, pgCtx, fsKind, dom>>

NewContextResume(t) ==
  /\ tasks[t].pc = "await"
  /\ \E fail \in BOOLEAN :
       LET r == newContextResume(BM, tasks[t].b, fail)
       IN /\ Fits(r.s)
          /\ browser' = r.s.browser
          /\ context' = r.s.context
          /\ page' = r.s.page
          /\ nBrowsers' = r.s.nBrowsers
          /\ brOpen' = r.s.brOpen
          /\ ctxBrowser' = r.s.ctxBrowser
          /\ ctxOpen' = r.s.ctxOpen
          /\ pgCtx' = r.s.pgCtx
          /\ tasks' = [tasks EXCEPT ![t].pc = "done", ![t].outcome = r.outcome,
                                    ![t].value = r.value, ![t].order = nDone + 1]
  /\ nDone' = nDone + 1
  /\ last' = NoCall
  /\ UNCHANGED <<obj, fsKind, dom>>

\* The callers have their answers; the manager is quiescent again.
Collect ==
  /\ \A t \in 1..2 : tasks[t].pc # "await"
  /\ \E t \in 1..2 : tasks[t].pc = "done"
  /\ tasks' = [t \in 1..2 |-> IdleTask]
  /\ nDone' = 0
  /\ last' = NoCall
  /\ UNCHANGED <<obj, browser, context, page, nBrowsers, brOpen, ctxBrowser,
                 ctxOpen, pgCtx, fsKind, dom>>

NextConc ==
  \/ NextBM
  \/ \E t \in 1..2 : NewContextBegin(t)
  \/ \E t \in 1..2 : NewContextResume(t)
  \/ Collect

Init ==
  /\ obj \in {"BrowserManager", "FileManager", "PageHandler"}
  /\ browser = Null
  /\ context = Null
  /\ page = Null
  /\ nBrowsers = 0
  /\ brOpen = {}
  /\ ctxBrowser = <<>>
  /\ ctxOpen = {}
  /\ pgCtx = <<>>
  /\ fsKind = [p \in 1..MaxPaths |-> "none"]
  /\ dom = <<>>
  /\ tasks = [t \in 1..2 |-> IdleTask]
  /\ nDone = 0
  /\ last = NoCall

Next == NextBM \/ NextFM \/ NextPH

Spec == Init /\ [][Next]_vars

\* A BrowserManager used by two callers at once.
InitConc == Init /\ obj = "BrowserManager"

SpecConc == InitConc /\ [][NextConc]_vars
\* ------------------------------------------------------------ the claims
Range(seq) == {seq[i] : i \in DOMAIN seq}
HasLog(level) == \E i \in DOMAIN last.logs : last.logs[i].level = level
HasLine(entry) == entry \in Range(last.logs)

\* C1 as stated: whenever a call an operation makes fails, the operation
\* logs the failure with console.error and its promise rejects with that
\* error.
C1_EveryFailureRethrown ==
  last.failed # "none" =>
    /\ last.outcome = "rejected"
    /\ last.err = last.failed
    /\ HasLog("error")

\* C1 amended: a failure of an awaited call is logged with console.error
\* and re-thrown by every operation but five.  closeContext, closeBrowser
\* and getElementText log it and resolve (to undefined, undefined, null);
\* typeText called with throwOnError = false logs a warning and resolves
\* to false; waitForRandomTimeout rejects with it and logs nothing.
C1_FailureRethrownButFive ==
  last.failed # "none" =>
    CASE last.op = "waitForRandomTimeout" ->
           /\ last.outcome = "rejected"
           /\ last.err = last.failed
           /\ last.logs = <<>>
      [] last.op \in {"closeContext", "closeBrowser"} ->
           /\ last.outcome = "resolved"
           /\ last.value = Undefined
           /\ HasLog("error")
      [] last.op = "getElementText" ->
           /\ last.outcome = "resolved"
           /\ last.value = Null
           /\ HasLog("error")
      [] last.op = "typeText" /\ ~last.args.throwOnError ->
           /\ last.outcome = "resolved"
           /\ last.value = FALSE
           /\ HasLog("warn")
           /\ ~HasLog("error")
      [] OTHER ->
           /\ last.outcome = "rejected"
           /\ last.err = last.failed
           /\ HasLog("error")

\* A read that failed and was re-thrown.
C1_Witness ==
  /\ last.op = "readFile"
  /\ last.failed = "ENOENT"
  /\ last.outcome = "rejected"

\* C2: newContext asks the engine for a context only when the manager holds
\* none; when it holds one it makes no engine call, creates nothing, warns,
\* keeps this.context and resolves to it.
C2_NewContextOnlyWhenNone ==
  last.op = "newContext" =>
    /\ Truthy(last.pre.context) =>
         /\ last.calls = <<>>
         /\ Len(ctxBrowser) = last.pre.nContexts
         /\ HasLine(Warn("Current Context needs to close before creating a new one"))
         /\ context = last.pre.context
         /\ last.outcome = "resolved"
         /\ last.value = last.pre.context
    /\ Len(ctxBrowser) > last.pre.nContexts => ~Truthy(last.pre.context)

\* newContext was called on a manager that holds a context.
C2_Witness ==
  /\ last.op = "newContext"
  /\ Truthy(last.pre.context)
  /\ Truthy(last.pre.browser)

\* C3 as stated: newContext never resolves to a context that is closed, and
\* called on a manager whose context has been closed it creates a new open
\* context and resolves to it (the engine not failing).
C3_NeverReturnsClosedContext ==
  last.op = "newContext" =>
    /\ last.outcome = "resolved" => last.value \in ctxOpen
    /\ Truthy(last.pre.context) /\ ~last.pre.contextOpen /\ last.failed = "none" =>
         /\ last.outcome = "resolved"
         /\ Len(ctxBrowser) = last.pre.nContexts + 1
         /\ last.value = Len(ctxBrowser)

\* C4: newPage leaves this.browser and this.context alone; when it resolves,
\* its value is a new page of the current context, and this.page is that
\* page unless isolatePage, which leaves this.page as it was.
C4_NewPage ==
  last.op = "newPage" =>
    /\ browser = last.pre.browser
    /\ context = last.pre.context
    /\ last.outcome = "resolved" =>
         /\ Len(pgCtx) = last.pre.nPages + 1
         /\ last.value = Len(pgCtx)
         /\ pgCtx[last.value] = last.pre.context
         /\ page = IF last.args.isolatePage THEN last.pre.page ELSE last.value

\* An isolated page was created on a manager that holds a page.
C4_Witness ==
  /\ last.op = "newPage"
  /\ last.args.isolatePage
  /\ last.outcome = "resolved"
  /\ Truthy(last.pre.page)

\* C5: a launchBrowser that resolves has launched a new browser, created a
\* new context in it and a new page in that context, holds the three, and
\* resolves to this.page.
C5_LaunchBrowser ==
  last.op = "launchBrowser" /\ last.outcome = "resolved" =>
    /\ nBrowsers = last.pre.nBrowsers + 1
    /\ browser = nBrowsers
    /\ browser \in brOpen
    /\ Len(ctxBrowser) = last.pre.nContexts + 1
    /\ context = Len(ctxBrowser)
    /\ ctxBrowser[context] = browser
    /\ context \in ctxOpen
    /\ Len(pgCtx) = last.pre.nPages + 1
    /\ page = Len(pgCtx)
    /\ pgCtx[page] = context
    /\ last.value = page

\* A launch resolved on a manager that already held a browser.
C5_Witness ==
  /\ last.op = "launchBrowser"
  /\ last.outcome = "resolved"
  /\ Truthy(last.pre.browser)

\* C6: connectOverCDP rejects when the connected browser has no context at
\* contextIndex; when it resolves, its value is a new page of the context
\* the browser already had at that position, and no context was created.
C6_ConnectOverCDP ==
  last.op = "connectOverCDP" =>
    /\ last.args.contextIndex \notin 0 .. last.args.k - 1 => last.outcome = "rejected"
    /\ last.outcome = "resolved" =>
         /\ "browser.newContext" \notin Range(last.calls)
         /\ Len(ctxBrowser) = last.pre.nContexts + last.args.k
         /\ Len(contexts(BM, browser)) = last.args.k
         /\ Len(pgCtx) = last.pre.nPages + 1
         /\ last.value = Len(pgCtx)
         /\ pgCtx[last.value] = contexts(BM, browser)[last.args.contextIndex + 1]

\* A connection resolved with an index other than the default.
C6_Witness ==
  /\ last.op = "connectOverCDP"
  /\ last.outcome = "resolved"
  /\ last.args.contextIndex = 1

\* C7 as stated: pathExist, fileExists and directoryExists resolve to
\* whether the path exists.
C7_PathExistResolves ==
  last.op \in {"pathExist", "fileExists", "directoryExists"} =>
    /\ last.outcome = "resolved"
    /\ last.value = (last.pre.fsKind[last.args.path] # "none")

\* C8 as stated: deletePath, deleteFile and deleteDirectory on a path that
\* does not exist attempt no removal, warn, change nothing and resolve; a
\* removal is attempted only when the path exists.
C8_DeleteMissingPath ==
  last.op \in {"deletePath", "deleteFile", "deleteDirectory"} =>
    /\ last.pre.fsKind[last.args.path] = "none" =>
         /\ "fs.rm" \notin Range(last.calls)
         /\ HasLine(Warn("Non-existing path can't be removed"))
         /\ fsKind = last.pre.fsKind
         /\ last.outcome = "resolved"
    /\ "fs.rm" \in Range(last.calls) => last.pre.fsKind[last.args.path] # "none"

\* C9 as stated: clickElemenWithText rejects when no element matching the
\* selector contains the text, and otherwise (the engine and the wait not
\* failing for a reason of their own) clicks the first such element.
C9_ClicksFirstMatch ==
  last.op = "clickElemenWithText" =>
    LET m == Matches(PH, page_locator(last.args.selector, last.args.elementText))
    IN /\ Len(m) = 0 => last.outcome = "rejected"
       /\ Len(m) > 0 /\ last.failed # "EngineError" =>
            /\ last.outcome = "resolved"
            /\ last.target = m[1]

\* Two newContext calls were in flight together and both are over.
BothDone ==
  \A t \in 1..2 : tasks[t].pc = "done" /\ tasks[t].overlap

BothResolved ==
  BothDone /\ \A t \in 1..2 : tasks[t].outcome = "resolved"

\* C10 as stated: two newContext calls in flight together on a manager that
\* holds a browser and no context resolve to the same context, the one in
\* this.context.
C10_SingleContext ==
  BothResolved =>
    /\ tasks[1].value = tasks[2].value
    /\ tasks[1].value = context

\* C10 amended: when both engine calls succeed, the two calls create a
\* context each and resolve to different contexts of the browser;
\* this.context is the one of the call that finished last, and the one of
\* the call that finished first stays open without the manager holding it.
C10_OneContextEach ==
  BothResolved =>
    /\ tasks[1].value # tasks[2].value
    /\ \A t \in 1..2 :
         /\ tasks[t].value \in ctxOpen
         /\ ctxBrowser[tasks[t].value] = tasks[t].b
         /\ tasks[t].order = 2 => context = tasks[t].value
         /\ tasks[t].order = 1 => context # tasks[t].value
    /\ {tasks[1].order, tasks[2].order} = {1, 2}

\* Both calls resolved after having been in flight together.
C10_Witness ==
  /\ BothResolved
  /\ tasks[1].order = 2
====
